---- MODULE Spec2Model ----
(***************************************************************************)
(* Model of find_river_map: country resolution and the /generate handler  *)
(* (src/app.py), mainland extraction, river size classification and the  *)
(* artifact naming convention.  Strings are tuples of one-character       *)
(* strings so that stripping, case folding and pattern search can be      *)
(* computed character by character, as Python and pandas compute them.   *)
(***************************************************************************)
EXTENDS Integers, Sequences, FiniteSets, TLC

\* request handler state: the countries dataset, the submitted form field,
\* the handler's position, the resolved rows and the handler's outcome
VARIABLES countries, form, pc, selection, status, response, flashmsg

\* mainland extraction state: the resolved selection and its CRS, the
\* extracted parts, the mainland region (rows), its CRS and the river mask
VARIABLES msel, mcrs, mpc, mparts, mchosen, mregion, mregion_crs, mmask

mainland_vars == <<msel, mcrs, mpc, mparts, mchosen, mregion, mregion_crs, mmask>>

\* the mainland variables while another operation is being checked
MainlandIdle ==
  /\ msel = <<>> /\ mcrs = "none" /\ mpc = "idle" /\ mparts = <<>>
  /\ mchosen = 0 /\ mregion = <<>> /\ mregion_crs = "none"
  /\ mmask = [kind |-> "none"]

\* river classification state: whether the river file has the UPLAND_SKM
\* column, the river rows read inside the mask, the classification's
\* position, the per-row metric and the annotated rows
VARIABLES rhas_upland, rrows, cpc, cmetric, cout

classify_vars == <<rhas_upland, rrows, cpc, cmetric, cout>>

\* the classification variables while another operation is being checked
ClassifyIdle ==
  /\ rhas_upland = FALSE /\ rrows = <<>> /\ cpc = "idle"
  /\ cmetric = <<>> /\ cout = <<>>

\* artifact naming state: the submitted country name, the handler's
\* position, whether the name resolved, the stem and the two artifact paths
VARIABLES sname, stokens, spc, saccepted, sstem, spng, spdf, ssaved

stem_vars == <<sname, stokens, spc, saccepted, sstem, spng, spdf, ssaved>>

\* the naming variables while another operation is being checked
StemIdle ==
  /\ sname = <<>> /\ stokens = 0 /\ spc = "idle" /\ saccepted = FALSE
  /\ sstem = <<>> /\ spng = <<>> /\ spdf = <<>> /\ ssaved = "none"

\* dataset cache state: whether each data file exists and its chunks on
\* disk, how many times it was opened for writing, the processes whose
\* existence check found it absent, and each process's position
VARIABLES fexists, fdata, fwrites, fsaw_absent, rpc

dl_vars == <<fexists, fdata, fwrites, fsaw_absent, rpc>>

\* the dataset cache variables while another operation is being checked
DownloadIdle ==
  /\ fexists = <<>> /\ fdata = <<>> /\ fwrites = <<>> /\ fsaw_absent = <<>>
  /\ rpc = <<>>

(* ---------------------------------------------------------------------- *)
(* Bounds                                                                  *)
(* ---------------------------------------------------------------------- *)
MaxQueryLen == 3
MaxFeatures == 2

(* ---------------------------------------------------------------------- *)
(* Strings                                                                 *)
(* ---------------------------------------------------------------------- *)
Chars == {"a", "A", " ", ".", "|", "("}

Whitespace == {" "}

\* str.lower() on one character
LowerChar(c) == IF c = "A" THEN "a" ELSE c

\* str.lower()
Lower(s) == [i \in 1..Len(s) |-> LowerChar(s[i])]

RECURSIVE LStrip(_)
LStrip(s) == IF s # <<>> /\ Head(s) \in Whitespace THEN LStrip(Tail(s)) ELSE s

RECURSIVE RStrip(_)
RStrip(s) == IF s # <<>> /\ s[Len(s)] \in Whitespace
               THEN RStrip(SubSeq(s, 1, Len(s) - 1)) ELSE s

\* str.strip()
Strip(s) == RStrip(LStrip(s))

\* literal substring test (`needle in hay`)
IsSubstring(needle, hay) ==
  \E k \in 0..Len(hay) :
     k + Len(needle) <= Len(hay)
     /\ \A j \in 1..Len(needle) : hay[k + j] = needle[j]

(* ---------------------------------------------------------------------- *)
(* Python `re` on the pattern alphabet: "(" without a matching ")" is a   *)
(* compile error, "|" separates alternatives, "." matches any character   *)
(* (no newlines occur), every other character matches itself.            *)
(* ---------------------------------------------------------------------- *)
RegexCompiles(p) == \A i \in 1..Len(p) : p[i] # "("

RECURSIVE SplitAlt(_, _)
SplitAlt(p, cur) ==
  IF p = <<>> THEN <<cur>>
  ELSE IF Head(p) = "|" THEN <<cur>> \o SplitAlt(Tail(p), <<>>)
  ELSE SplitAlt(Tail(p), Append(cur, Head(p)))

Alternatives(p) == SplitAlt(p, <<>>)

AltMatchesAt(alt, s, k) ==
  /\ k + Len(alt) <= Len(s)
  /\ \A j \in 1..Len(alt) : alt[j] = "." \/ alt[j] = s[k + j]

\* re.compile(p).search(s) is not None
RegexSearch(p, s) ==
  \E a \in 1..Len(Alternatives(p)) :
     \E k \in 0..Len(s) : AltMatchesAt(Alternatives(p)[a], s, k)

(* ---------------------------------------------------------------------- *)
(* Countries dataset                                                       *)
(* ---------------------------------------------------------------------- *)
NameSet == {<<"a">>, <<"a", "a">>, <<"A", "a">>}
TypeSet == {"Dependency", "Sovereign country"}

CountryRows == [SOVEREIGNT : NameSet, TYPE : TypeSet]

Datasets == UNION {[1..n -> CountryRows] : n \in 1..MaxFeatures}

Queries == UNION {[1..n -> Chars] : n \in 0..MaxQueryLen}

\* a resolver that forgets the TYPE filter on the exact pass
ResolveNoTypeFilter(ds, country_name) ==
  LET q == Lower(Strip(country_name))
      exact == {i \in 1..Len(ds) : Lower(ds[i].SOVEREIGNT) = q}
  IN
  IF exact # {} THEN [status |-> "ok", sel |-> exact]
  ELSE IF ~RegexCompiles(q)
    THEN [status |-> "regex_error", sel |-> {}]
  ELSE LET sub == {i \in 1..Len(ds) : RegexSearch(q, Lower(ds[i].SOVEREIGNT))
                                      /\ ds[i].TYPE # "Dependency"}
       IN IF sub # {} THEN [status |-> "ok", sel |-> sub]
          ELSE [status |-> "notfound", sel |-> {}]

\* generate_country_map, lines 244-256: the selected rows, or an error
Resolve(ds, country_name) ==
  LET q == Lower(Strip(country_name))
      exact == {i \in 1..Len(ds) : Lower(ds[i].SOVEREIGNT) = q
                                   /\ ds[i].TYPE # "Dependency"}
  IN
  IF exact # {} THEN [status |-> "ok", sel |-> exact]
  ELSE IF ~RegexCompiles(q)
    THEN [status |-> "regex_error", sel |-> {}]
  ELSE LET sub == {i \in 1..Len(ds) : RegexSearch(q, Lower(ds[i].SOVEREIGNT))
                                      /\ ds[i].TYPE # "Dependency"}
       IN IF sub # {} THEN [status |-> "ok", sel |-> sub]
          ELSE [status |-> "notfound", sel |-> {}]

(* ---------------------------------------------------------------------- *)
(* The /generate request handler (app.py generate, lines 296-314)        *)
(* ---------------------------------------------------------------------- *)
resolve_vars == <<countries, form, pc, selection, status, response, flashmsg>>

ResolveInit ==
  /\ countries \in Datasets
  /\ form \in Queries
  /\ pc = "idle"
  /\ selection = {}
  /\ status = "none"
  /\ response = "none"
  /\ flashmsg = "none"
  /\ MainlandIdle
  /\ ClassifyIdle
  /\ StemIdle
  /\ DownloadIdle

\* empty form field: flash and redirect (lines 298-301)
GenerateEmpty ==
  /\ pc = "idle"
  /\ Strip(form) = <<>>
  /\ pc' = "done"
  /\ status' = "empty_form"
  /\ response' = "redirect"
  /\ flashmsg' = "Please select a country."
  /\ UNCHANGED <<countries, form, selection>>
  /\ UNCHANGED <<mainland_vars, classify_vars, stem_vars, dl_vars>>

\* generate_country_map raises during resolution: flash str(e), redirect
GenerateResolveFails ==
  /\ pc = "idle"
  /\ Strip(form) # <<>>
  /\ Resolve(countries, Strip(form)).status # "ok"
  /\ pc' = "done"
  /\ status' = Resolve(countries, Strip(form)).status
  /\ selection' = {}
  /\ response' = "redirect"
  /\ flashmsg' = IF status' = "notfound" THEN "not_found_message"
                  ELSE "regex_error_message"
  /\ UNCHANGED <<countries, form>>
  /\ UNCHANGED <<mainland_vars, classify_vars, stem_vars, dl_vars>>

\* download_and_save (lines 240-241: request or HTTP error) or
\* gpd.read_file (line 243, e.g. on a truncated cached file) raises before
\* resolution: flash str(e), redirect, whatever the query
GenerateLoadFails ==
  /\ pc = "idle"
  /\ Strip(form) # <<>>
  /\ pc' = "done"
  /\ status' = "load_error"
  /\ selection' = {}
  /\ response' = "redirect"
  /\ flashmsg' = "load_error_message"
  /\ UNCHANGED <<countries, form>>
  /\ UNCHANGED <<mainland_vars, classify_vars, stem_vars, dl_vars>>

\* resolution succeeds; the rest of the pipeline (reading, rendering,
\* saving) either returns the page or raises into the same except clause
GenerateResolved ==
  /\ pc = "idle"
  /\ Strip(form) # <<>>
  /\ Resolve(countries, Strip(form)).status = "ok"
  /\ pc' = "done"
  /\ status' = "ok"
  /\ selection' = Resolve(countries, Strip(form)).sel
  /\ \E r \in {"render", "redirect"} :
        /\ response' = r
        /\ flashmsg' = IF r = "render" THEN "none" ELSE "pipeline_error_message"
  /\ UNCHANGED <<countries, form>>
  /\ UNCHANGED <<mainland_vars, classify_vars, stem_vars, dl_vars>>

ResolveNext ==
  GenerateEmpty \/ GenerateLoadFails \/ GenerateResolveFails \/ GenerateResolved

all_vars == <<resolve_vars, mainland_vars, classify_vars, stem_vars, dl_vars>>

ResolveSpec == ResolveInit /\ [][ResolveNext]_all_vars

(* ---------------------------------------------------------------------- *)
(* Resolution properties                                                   *)
(* ---------------------------------------------------------------------- *)
NormQuery == Lower(Strip(Strip(form)))

ExactSet == {i \in 1..Len(countries) :
               Lower(countries[i].SOVEREIGNT) = NormQuery
               /\ countries[i].TYPE # "Dependency"}

LiteralSubSet == {i \in 1..Len(countries) :
                    IsSubstring(NormQuery, Lower(countries[i].SOVEREIGNT))
                    /\ countries[i].TYPE # "Dependency"}

\* C1: a query equal, up to case and surrounding whitespace, to the name of a
\* non-dependency feature resolves to exactly the non-dependency features of
\* that name, and never to a feature of type "Dependency" (resolution runs
\* once the datasets have loaded).
ExactMatchResolves ==
  (pc = "done" /\ status # "load_error" /\ ExactSet # {})
    => /\ status = "ok"
       /\ selection = ExactSet
       /\ \A i \in selection : countries[i].TYPE # "Dependency"

ExactMatchWitness ==
  /\ pc = "done"
  /\ ExactSet # {}
  /\ form # Strip(form)
  /\ \E i \in 1..Len(form) : form[i] = "A"
  /\ \E i \in 1..Len(countries) :
        countries[i].TYPE = "Dependency" /\ Lower(countries[i].SOVEREIGNT) = NormQuery

\* C2 (as stated): exact matches take precedence; otherwise the result is the
\* set of non-dependency features whose name contains the query as a
\* literal substring, for every query string (once the datasets loaded).
ExactThenSubstring ==
  (pc = "done" /\ Strip(form) # <<>> /\ status # "load_error")
    => IF ExactSet # {} THEN status = "ok" /\ selection = ExactSet
       ELSE IF LiteralSubSet # {} THEN status = "ok" /\ selection = LiteralSubSet
       ELSE status = "notfound"

\* C3 (as stated): a query matching no non-dependency name, exactly or as a
\* literal substring, fails with the single not-found error, which the
\* handler flashes before redirecting (once the datasets loaded).
NoMatchIsNotFound ==
  (pc = "done" /\ Strip(form) # <<>> /\ status # "load_error"
   /\ ExactSet = {} /\ LiteralSubSet = {})
    => status = "notfound" /\ response = "redirect"
       /\ flashmsg = "not_found_message"

(* ---------------------------------------------------------------------- *)
(* Geometries of the selection, after to_crs(epsg=3857).  `area` is the   *)
(* planar area in the projected CRS (shapely .area); an area of 0 is an   *)
(* empty polygon.  `leaves` bounds the size of a generated selection.     *)
(* ---------------------------------------------------------------------- *)
MaxArea == 2
MaxLeaves == 3

NoGeom == [kind |-> "None"]
LineString == [kind |-> "LineString"]
Polygons == {[kind |-> "Polygon", area |-> a] : a \in 0..MaxArea}

\* sequences of at most b polygons
\* all <<g>> \o r for g in G, r in R
Prepend(G, R) == {<<g>> \o r : g \in G, r \in R}

\* sequences of exactly n polygons
RECURSIVE PolySeqs(_)
PolySeqs(n) ==
  IF n = 0 THEN {<<>>}
  ELSE Prepend(Polygons, PolySeqs(n - 1))

\* the generated geometries of each size: a polygon, a line or a null
\* geometry has size 1, an empty collection size 1, a collection the sum of
\* the sizes of its members
MultiPolygonsOfSize(n) ==
  {[kind |-> "MultiPolygon", geoms |-> s] : s \in PolySeqs(n)}
  \cup (IF n = 1 THEN {[kind |-> "MultiPolygon", geoms |-> <<>>]} ELSE {})

\* members of a GeometryCollection: polygons, lines and multipolygons
MembersOfSize(n) ==
  (IF n = 1 THEN Polygons \cup {LineString} ELSE {}) \cup MultiPolygonsOfSize(n)

RECURSIVE MemberSeqs(_)
MemberSeqs(n) ==
  IF n = 0 THEN {<<>>}
  ELSE UNION {Prepend(MembersOfSize(k), MemberSeqs(n - k)) : k \in 1..n}

CollectionsOfSize(n) ==
  {[kind |-> "GeometryCollection", geoms |-> s] : s \in MemberSeqs(n)}
  \cup (IF n = 1 THEN {[kind |-> "GeometryCollection", geoms |-> <<>>]} ELSE {})

GeomsOfSize(n) ==
  (IF n = 1 THEN {NoGeom} \cup Polygons ELSE {})
  \cup MultiPolygonsOfSize(n) \cup CollectionsOfSize(n)

\* the geometries of each size, computed once
GeomsBySize == [k \in 1..MaxLeaves |-> GeomsOfSize(k)]

\* size of a generated geometry
RECURSIVE Size(_)
Size(g) ==
  IF g.kind \in {"MultiPolygon", "GeometryCollection"} /\ g.geoms # <<>>
    THEN LET F[i \in 0..Len(g.geoms)] ==
               IF i = 0 THEN 0 ELSE F[i - 1] + Size(g.geoms[i])
         IN F[Len(g.geoms)]
    ELSE 1

\* total size of a selection
SelSize(sel) ==
  LET F[i \in 0..Len(sel)] == IF i = 0 THEN 0 ELSE F[i - 1] + Size(sel[i])
  IN F[Len(sel)]

\* CRS of the countries file (read_file of the Natural Earth shapefile)
SourceCrs == {"EPSG:4326"}

(* ---------------------------------------------------------------------- *)
(* Mainland extraction (generate_country_map, app.py lines 258-278)       *)
(* ---------------------------------------------------------------------- *)
\* shapely .area in the projected CRS
RECURSIVE Area(_)
Area(g) ==
  CASE g.kind = "Polygon" -> g.area
    [] g.kind \in {"MultiPolygon", "GeometryCollection"} ->
         LET F[i \in 0..Len(g.geoms)] ==
               IF i = 0 THEN 0 ELSE F[i - 1] + Area(g.geoms[i])
         IN F[Len(g.geoms)]
    [] OTHER -> 0

\* the `parts` loop (lines 259-267): each part with its position
\* <<feature>> or <<feature, member>> in the selection
FeatureParts(g, i) ==
  IF g.kind = "None" THEN <<>>
  ELSE IF g.kind \in {"MultiPolygon", "GeometryCollection"}
    THEN [j \in 1..Len(g.geoms) |-> [geom |-> g.geoms[j], path |-> <<i, j>>]]
  ELSE <<[geom |-> g, path |-> <<i>>]>>

Parts(sel) ==
  LET F[i \in 0..Len(sel)] ==
        IF i = 0 THEN <<>> ELSE F[i - 1] \o FeatureParts(sel[i], i)
  IN F[Len(sel)]

\* int(np.argmax(areas)): the first index of a maximal area
ArgMax(areas) ==
  CHOOSE i \in 1..Len(areas) :
    /\ \A j \in 1..Len(areas) : areas[j] <= areas[i]
    /\ \A j \in 1..(i - 1) : areas[j] < areas[i]

\* selected_country.geometry.unary_union
UnionOf(sel) == [kind |-> "Union", of |-> sel]

\* GeoSeries([largest], crs=3857).to_crs(selected_country.crs)
ToSourceCrs(crs) == crs

\* one more non-dependency row of the resolved selection (its geometry
\* after to_crs(epsg=3857)); the rows are the input of the extraction
ReadSelectedRow ==
  /\ mpc = "read"
  /\ \E k \in 1..(MaxLeaves - SelSize(msel)) :
       \E g \in GeomsBySize[k] : msel' = Append(msel, g)
  /\ UNCHANGED <<mcrs, mpc, mparts, mchosen, mregion, mregion_crs, mmask>>

ExtractMainland ==
  /\ mpc = "read"
  /\ msel # <<>>
  /\ mpc' = "done"
  /\ mparts' = Parts(msel)
  /\ IF Len(Parts(msel)) = 0
       THEN /\ mchosen' = 0
            /\ mmask' = UnionOf(msel)
            /\ mregion' = msel
            /\ mregion_crs' = mcrs
       ELSE LET ps == Parts(msel)
                k == ArgMax([i \in 1..Len(ps) |-> Area(ps[i].geom)])
            IN /\ mchosen' = k
               /\ mmask' = ps[k].geom
               /\ mregion' = <<ps[k].geom>>
               /\ mregion_crs' = ToSourceCrs(mcrs)
  /\ UNCHANGED <<msel, mcrs>>

ResolveIdle ==
  /\ countries = <<>> /\ form = <<>> /\ pc = "idle" /\ selection = {}
  /\ status = "none" /\ response = "none" /\ flashmsg = "none"

MainlandInit ==
  /\ msel = <<>>
  /\ mcrs \in SourceCrs
  /\ mpc = "read"
  /\ mparts = <<>>
  /\ mchosen = 0
  /\ mregion = <<>>
  /\ mregion_crs = "none"
  /\ mmask = [kind |-> "none"]
  /\ ResolveIdle
  /\ ClassifyIdle
  /\ StemIdle
  /\ DownloadIdle

MainlandNext ==
  \/ ReadSelectedRow /\ UNCHANGED <<resolve_vars, classify_vars, stem_vars, dl_vars>>
  \/ ExtractMainland /\ UNCHANGED <<resolve_vars, classify_vars, stem_vars, dl_vars>>

MainlandSpec == MainlandInit /\ [][MainlandNext]_all_vars

(* ---------------------------------------------------------------------- *)
(* Mainland properties                                                     *)
(* ---------------------------------------------------------------------- *)
\* every single polygon of the selection, at any depth, in
\* feature-then-part order, with its position
RECURSIVE PolyLeaves(_, _)
PolyLeaves(g, path) ==
  IF g.kind = "Polygon" THEN <<[geom |-> g, path |-> path]>>
  ELSE IF g.kind \in {"MultiPolygon", "GeometryCollection"}
    THEN LET F[i \in 0..Len(g.geoms)] ==
               IF i = 0 THEN <<>>
               ELSE F[i - 1] \o PolyLeaves(g.geoms[i], Append(path, i))
         IN F[Len(g.geoms)]
  ELSE <<>>

AllPolyParts(sel) ==
  LET F[i \in 0..Len(sel)] ==
        IF i = 0 THEN <<>> ELSE F[i - 1] \o PolyLeaves(sel[i], <<i>>)
  IN F[Len(sel)]

RECURSIVE IsEmptyGeom(_)
IsEmptyGeom(g) ==
  CASE g.kind = "None" -> TRUE
    [] g.kind = "Polygon" -> g.area = 0
    [] g.kind \in {"MultiPolygon", "GeometryCollection"} ->
         \A i \in 1..Len(g.geoms) : IsEmptyGeom(g.geoms[i])
    [] OTHER -> FALSE

\* C4 (as stated): with at least one polygon part, the mainland is one of
\* the single-polygon parts of the fully flattened selection, of maximal
\* planar area, the first such in feature-then-part order.
LargestPartIsMainland ==
  (mpc = "done" /\ Len(AllPolyParts(msel)) > 0)
    => LET pp == AllPolyParts(msel)
           mx == CHOOSE a \in {pp[i].geom.area : i \in 1..Len(pp)} :
                   \A i \in 1..Len(pp) : pp[i].geom.area <= a
       IN /\ mchosen > 0
          /\ Len(mregion) = 1
          /\ \E k \in 1..Len(pp) :
                /\ pp[k].path = mparts[mchosen].path
                /\ pp[k].geom = mregion[1]
                /\ pp[k].geom.area = mx
                /\ \A j \in 1..(k - 1) : pp[j].geom.area < mx

\* C5 (as stated): the mainland region is always one polygon row in the
\* CRS of the input selection.
MainlandSinglePolygon ==
  mpc = "done"
    => /\ Len(mregion) = 1
       /\ mregion[1].kind = "Polygon"
       /\ mregion_crs = mcrs

\* C6 (as stated): when every geometry is null or empty (an empty Polygon
\* included), extraction falls back to the union of the selection as mask
\* and the selection itself as region.
EmptyFallsBack ==
  (mpc = "done" /\ \A i \in 1..Len(msel) : IsEmptyGeom(msel[i]))
    => mmask = UnionOf(msel) /\ mregion = msel /\ mregion_crs = mcrs

(* ---------------------------------------------------------------------- *)
(* River size classification (plot_stylish_map, app.py lines 145-158).    *)
(* Metric values are real numbers written in hundredths: 33000 is 330.0.  *)
(* ---------------------------------------------------------------------- *)
MaxRivers == 3

\* UPLAND_SKM values: -2, -0.5, 0, 10, 330, 500, 1000
UplandValues == {-200, -50, 0, 1000, 33000, 50000, 100000}
\* geometry lengths in the projected CRS: 0, 1000
LengthValues == {0, 100000}

\* a row with a null UPLAND_SKM carries upland = 0 and upland_null = TRUE
RiverRowsWith(has) ==
  IF has
    THEN [upland : UplandValues, upland_null : {FALSE}, length : LengthValues]
         \cup [upland : {0}, upland_null : {TRUE}, length : LengthValues]
    ELSE [upland : {0}, upland_null : {FALSE}, length : LengthValues]

\* a metric that falls back to the length per row when the value is null
MetricPerRow(rows, has) ==
  [i \in 1..Len(rows) |->
     IF has /\ ~rows[i].upland_null THEN rows[i].upland ELSE rows[i].length]

\* "UPLAND_SKM" in columns: UPLAND_SKM.fillna(0).astype(float), else
\* geometry.length (lines 146-149)
Metric(rows, has) ==
  [i \in 1..Len(rows) |->
     IF has THEN (IF rows[i].upland_null THEN 0 ELSE rows[i].upland)
     ELSE rows[i].length]

\* Series.max() (NaN, never > 0, on an empty series)
MaxOf(m) == CHOOSE x \in {m[i] : i \in 1..Len(m)} : \A i \in 1..Len(m) : m[i] <= x

\* pd.cut(num / den, bins=[-1, 0.33, 0.66, 1.0], labels=[...]) for den > 0:
\* right-closed bins, a value outside (-1, 1.0] gets NaN
Bucket(num, den) ==
  CASE -100 * den < 100 * num /\ 100 * num <= 33 * den -> "small"
    [] 33 * den < 100 * num /\ 100 * num <= 66 * den -> "medium"
    [] 66 * den < 100 * num /\ 100 * num <= 100 * den -> "large"
    [] OTHER -> "NaN"

\* a classification that drops the rows pd.cut left without a class
ClassifyDropUnclassified(rows, m) ==
  LET pos == Len(m) > 0 /\ MaxOf(m) > 0
      all == [i \in 1..Len(rows) |->
               [row |-> rows[i],
                size_cat |-> IF pos THEN Bucket(m[i], MaxOf(m)) ELSE Bucket(m[i], 100)]]
  IN SelectSeq(all, LAMBDA r : r.size_cat # "NaN")

\* lines 151-158: rel = metric / metric.max() if the max is positive, else
\* the raw metric (value / 100 in hundredths); rows annotated with _size_cat
Classify(rows, m) ==
  LET pos == Len(m) > 0 /\ MaxOf(m) > 0
  IN [i \in 1..Len(rows) |->
        [row |-> rows[i],
         size_cat |-> IF pos THEN Bucket(m[i], MaxOf(m)) ELSE Bucket(m[i], 100)]]

ClassifyInit ==
  /\ rhas_upland \in BOOLEAN
  /\ rrows = <<>>
  /\ cpc = "read"
  /\ cmetric = <<>>
  /\ cout = <<>>
  /\ ResolveIdle
  /\ MainlandIdle
  /\ StemIdle
  /\ DownloadIdle

\* gpd.read_file(hydrorivers_fp, mask=mainland_mask): one more river row
ReadRiverRow ==
  /\ cpc = "read"
  /\ Len(rrows) < MaxRivers
  /\ \E r \in RiverRowsWith(rhas_upland) : rrows' = Append(rrows, r)
  /\ UNCHANGED <<rhas_upland, cpc, cmetric, cout>>

\* the size-metric and size-class pass of plot_stylish_map
ClassifyRivers ==
  /\ cpc = "read"
  /\ cpc' = "done"
  /\ cmetric' = Metric(rrows, rhas_upland)
  /\ cout' = Classify(rrows, Metric(rrows, rhas_upland))
  /\ UNCHANGED <<rhas_upland, rrows>>

ClassifyNext ==
  \/ ReadRiverRow /\ UNCHANGED <<resolve_vars, mainland_vars, stem_vars, dl_vars>>
  \/ ClassifyRivers /\ UNCHANGED <<resolve_vars, mainland_vars, stem_vars, dl_vars>>

ClassifySpec == ClassifyInit /\ [][ClassifyNext]_all_vars

(* ---------------------------------------------------------------------- *)
(* Classification properties                                               *)
(* ---------------------------------------------------------------------- *)
ClassMax == MaxOf(cmetric)

\* C7 (as stated): every row gets exactly one of small/medium/large; with a
\* positive maximum by metric / max in (-1,0.33], (0.33,0.66], (0.66,1.0];
\* with a maximum <= 0 every row is small.
EveryRiverClassified ==
  cpc = "done"
    => \A i \in 1..Len(cout) :
         /\ cout[i].size_cat \in {"small", "medium", "large"}
         /\ ClassMax > 0 =>
              cout[i].size_cat =
                (IF 100 * cmetric[i] <= 33 * ClassMax THEN "small"
                 ELSE IF 100 * cmetric[i] <= 66 * ClassMax THEN "medium"
                 ELSE "large")
         /\ ClassMax <= 0 => cout[i].size_cat = "small"

\* C8: classification keeps every input row, once, in input order, and only
\* adds the size class.
ClassifyPreservesRows ==
  cpc = "done"
    => /\ Len(cout) = Len(rrows)
       /\ \A i \in 1..Len(cout) :
             /\ cout[i].row = rrows[i]
             /\ DOMAIN cout[i] = {"row", "size_cat"}

ClassifyPreservesWitness ==
  /\ cpc = "done"
  /\ Len(rrows) = MaxRivers
  /\ rrows[1] # rrows[2]
  /\ \E i \in 1..Len(cout) : cout[i].size_cat = "NaN"

\* C9: with the UPLAND_SKM column the metric is its value (null as 0),
\* without it the geometry length, decided for the whole dataset.
MetricByColumn ==
  cpc = "done"
    => /\ Len(cmetric) = Len(rrows)
       /\ \A i \in 1..Len(rrows) :
             cmetric[i] = IF rhas_upland
                            THEN IF rrows[i].upland_null THEN 0 ELSE rrows[i].upland
                            ELSE rrows[i].length

MetricByColumnWitness ==
  /\ cpc = "done"
  /\ rhas_upland
  /\ \E i \in 1..Len(rrows) : rrows[i].upland_null /\ rrows[i].length > 0
  /\ \E i \in 1..Len(rrows) : ~rrows[i].upland_null /\ rrows[i].upland # rrows[i].length

\* the documented example: areas [10, 500, 1000] give small, medium, large
ExampleClasses ==
  /\ cpc = "done"
  /\ cmetric = <<1000, 50000, 100000>>
  /\ cout[1].size_cat = "small" /\ cout[2].size_cat = "medium"
  /\ cout[3].size_cat = "large"

(* ---------------------------------------------------------------------- *)
(* Artifact naming (generate_country_map line 281, plot_stylish_map lines *)
(* 221-225).  Paths are sequences of symbols; "/" separates components.   *)
(* ---------------------------------------------------------------------- *)
MaxNameTokens == 5

\* pieces a submitted country name is typed from
NameTokens == {<<"a">>, <<"A">>, <<" ">>, <<"|">>, <<"/", ".", ".">>, <<"/", "a">>}

\* the countries file as seen by the naming check: one country "Aa"
NamingCountries == <<[SOVEREIGNT |-> <<"A", "a">>, TYPE |-> "Sovereign country"]>>

\* os.path.join(BASE_DIR, "output")
OutputFolder == <<<<"<base>">>, <<"o", "u", "t", "p", "u", "t">>>>

\* s.replace(' ', '_')
ReplaceSpaces(s) == [i \in 1..Len(s) |-> IF s[i] = " " THEN "_" ELSE s[i]]

\* f"rivers_of_{country_name.lower().replace(' ', '_')}"
StemOf(name) == <<"rivers_of_">> \o ReplaceSpaces(Lower(name))

\* split a file name on "/" into path components
RECURSIVE SplitPath(_, _)
SplitPath(s, cur) ==
  IF s = <<>> THEN <<cur>>
  ELSE IF Head(s) = "/" THEN <<cur>> \o SplitPath(Tail(s), <<>>)
  ELSE SplitPath(Tail(s), Append(cur, Head(s)))

\* os.path.join(OUTPUT_FOLDER, name) as a list of components
JoinPath(dir, name) == dir \o SplitPath(name, <<>>)

\* directories that exist: the filesystem root, BASE_DIR and the two folders
\* app.py creates (lines 31-32); the app never creates sub-directories
ExistingDirs == {<<>>, <<<<"<base>">>>>, OutputFolder, <<<<"<base>">>, <<"d", "a", "t", "a">>>>}

\* open(path, "wb") as the kernel resolves it: every component but the last
\* must name an existing directory ("" and "." stay, ".." goes up); the
\* last names the file, which must not be "", "." or ".." nor an existing
\* directory (EISDIR)
RECURSIVE KernelWalk(_, _)
KernelWalk(cur, comps) ==
  LET c == Head(comps) IN
  IF Len(comps) = 1
    THEN IF c \in {<<>>, <<".">>, <<".", ".">>} \/ Append(cur, c) \in ExistingDirs
           THEN [ok |-> FALSE, path |-> <<>>]
         ELSE [ok |-> TRUE, path |-> Append(cur, c)]
  ELSE IF c = <<>> \/ c = <<".">> THEN KernelWalk(cur, Tail(comps))
  ELSE IF c = <<".", ".">>
    THEN KernelWalk(IF cur = <<>> THEN <<>> ELSE SubSeq(cur, 1, Len(cur) - 1), Tail(comps))
  ELSE IF Append(cur, c) \in ExistingDirs THEN KernelWalk(Append(cur, c), Tail(comps))
  ELSE [ok |-> FALSE, path |-> <<>>]

KernelOpen(p) == KernelWalk(<<>>, p)

StemInit ==
  /\ sname = <<>>
  /\ stokens = 0
  /\ spc = "typing"
  /\ saccepted = FALSE
  /\ sstem = <<>>
  /\ spng = <<>>
  /\ spdf = <<>>
  /\ ssaved = "none"
  /\ ResolveIdle
  /\ MainlandIdle
  /\ ClassifyIdle
  /\ DownloadIdle

\* the form field is typed one piece at a time
TypeNameToken ==
  /\ spc = "typing"
  /\ stokens < MaxNameTokens
  /\ \E t \in NameTokens : sname' = sname \o t
  /\ stokens' = stokens + 1
  /\ UNCHANGED <<spc, saccepted, sstem, spng, spdf, ssaved>>

\* POST /generate: the handler strips the name; a name that resolves reaches
\* line 281 and plot_stylish_map joins both file names to OUTPUT_FOLDER and
\* saves the PNG, then the PDF (lines 221-225); a failed open raises, and the
\* request ends in an error with no file written
GenerateArtifacts ==
  /\ spc = "typing"
  /\ Strip(sname) # <<>>
  /\ spc' = "done"
  /\ LET name == Strip(sname)
     IN IF Resolve(NamingCountries, name).status = "ok"
          THEN /\ saccepted' = TRUE
               /\ sstem' = StemOf(name)
               /\ spng' = JoinPath(OutputFolder, StemOf(name) \o <<".png">>)
               /\ spdf' = JoinPath(OutputFolder, StemOf(name) \o <<".pdf">>)
               /\ ssaved' = IF KernelOpen(JoinPath(OutputFolder, StemOf(name) \o <<".png">>)).ok
                              THEN "saved" ELSE "save_failed"
          ELSE /\ saccepted' = FALSE
               /\ UNCHANGED <<sstem, spng, spdf, ssaved>>
  /\ UNCHANGED <<sname, stokens>>

StemNext ==
  \/ TypeNameToken /\ UNCHANGED <<resolve_vars, mainland_vars, classify_vars, dl_vars>>
  \/ GenerateArtifacts /\ UNCHANGED <<resolve_vars, mainland_vars, classify_vars, dl_vars>>

StemSpec == StemInit /\ [][StemNext]_all_vars

\* a path strictly inside the output folder once resolved
InsideOutput(p) ==
  LET t == KernelOpen(p)
  IN t.ok /\ Len(t.path) = Len(OutputFolder) + 1
     /\ SubSeq(t.path, 1, Len(OutputFolder)) = OutputFolder

\* C10 (as stated): for every accepted name both artifacts share the stem
\* "rivers_of_" + lower(name) with spaces as underscores, end in .png and
\* .pdf, and are opened for writing as files directly inside the output folder.
ArtifactsNamedInside ==
  (spc = "done" /\ saccepted)
    => /\ sstem = StemOf(Strip(sname))
       /\ spng = JoinPath(OutputFolder, sstem \o <<".png">>)
       /\ spdf = JoinPath(OutputFolder, sstem \o <<".pdf">>)
       /\ InsideOutput(spng)
       /\ InsideOutput(spdf)

(* ---------------------------------------------------------------------- *)
(* Dataset cache (download_and_save, app.py lines 86-95, called for the   *)
(* two files at lines 240-241).  Requests run in the threads of the Flask *)
(* server, so their steps interleave.                                     *)
(* ---------------------------------------------------------------------- *)
MaxRequests == 2

\* COUNTRIES_FILE, then HYDRORIVERS_FILE
DataFiles == <<"ne_10m_admin_0_countries_ind.zip", "hydrorivers_100.gpkg">>

Requests == 1..MaxRequests

\* chunks in a complete download (iter_content(chunk_size=8192))
NChunks == 2

\* src/rivers.py, run as a script next to the app, sharing the data folder
ScriptProc == MaxRequests + 1

Procs == 1..(MaxRequests + 1)

\* the order each process fetches the files in: generate_country_map takes
\* the countries file first (app.py lines 240-241), rivers.py the rivers
\* file first (rivers.py lines 43-44)
FileOrder(p) == IF p = ScriptProc THEN <<2, 1>> ELSE <<1, 2>>

CurFile(p) == FileOrder(p)[rpc[p].k]

\* a cache check that never sees the file
FileExistsNever(e) == FALSE

\* os.path.exists(filepath)
FileExists(e) == e

\* the full download as it lies on disk
Complete(i) == fexists[i] /\ fdata[i] = [j \in 1..NChunks |-> "ok"]

\* f.write at the file offset pos: overwrite in place, or, past the end,
\* extend the file with a zero-filled hole up to pos
WriteAt(d, pos, c) ==
  IF pos < Len(d) THEN [d EXCEPT ![pos + 1] = c]
  ELSE d \o [j \in 1..(pos - Len(d)) |-> "hole"] \o <<c>>

\* the step after the current file is done: the next file's check, or the
\* first read
NextFile(p) ==
  IF rpc[p].k < Len(DataFiles)
    THEN [rpc[p] EXCEPT !.k = @ + 1, !.stage = "check", !.pos = 0]
    ELSE [rpc[p] EXCEPT !.stage = "readc", !.pos = 0, !.rdone = {}]

DownloadInit ==
  /\ fexists \in [1..Len(DataFiles) -> BOOLEAN]
  /\ fdata = [i \in 1..Len(DataFiles) |->
                IF fexists[i] THEN [j \in 1..NChunks |-> "ok"] ELSE <<>>]
  /\ fwrites = [i \in 1..Len(DataFiles) |-> 0]
  /\ fsaw_absent = [i \in 1..Len(DataFiles) |-> {}]
  /\ rpc = [p \in Procs |-> [k |-> 1, pos |-> 0, body |-> "ok", rdone |-> {},
                            stage |-> "check"]]
  /\ ResolveIdle
  /\ MainlandIdle
  /\ ClassifyIdle
  /\ StemIdle

\* app.py line 88 / rivers.py line 24: if the file exists, go on; else
\* fetch it
CheckFile(p) ==
  LET i == CurFile(p) IN
  /\ rpc[p].stage = "check"
  /\ rpc' = [rpc EXCEPT ![p] = IF FileExists(fexists[i]) THEN NextFile(p)
                                ELSE [rpc[p] EXCEPT !.stage = "get"]]
  /\ fsaw_absent' = IF ~fexists[i]
                       THEN [fsaw_absent EXCEPT ![i] = @ \cup {p}]
                       ELSE fsaw_absent
  /\ UNCHANGED <<fexists, fdata, fwrites>>

\* app.py lines 90-92: requests.get, raise_for_status (an HTTP error raises
\* and the request fails), then open(filepath, "wb") creates or truncates
\* the file; rivers.py lines 25-26 have no raise_for_status, so an HTTP
\* error's body is what gets written.  requests.get itself raises on a
\* connection failure in both, before anything is opened.
GetAndOpen(p) ==
  LET i == CurFile(p) IN
  /\ rpc[p].stage = "get"
  /\ \E body \in {"ok", "err", "conn"} :
       IF body = "conn" \/ (body = "err" /\ p # ScriptProc)
         THEN /\ rpc' = [rpc EXCEPT ![p].stage = "failed"]
              /\ UNCHANGED <<fexists, fdata, fwrites>>
         ELSE /\ rpc' = [rpc EXCEPT ![p] = [@ EXCEPT !.stage = "write", !.pos = 0,
                                                    !.body = body]]
              /\ fexists' = [fexists EXCEPT ![i] = TRUE]
              /\ fdata' = [fdata EXCEPT ![i] = <<>>]
              /\ fwrites' = [fwrites EXCEPT ![i] = @ + 1]
  /\ UNCHANGED fsaw_absent

\* app.py lines 93-94 / rivers.py lines 27-28: one chunk is written at the
\* process's own file offset; the stream can break before it, which raises
\* with the file left as written so far.  Asking for the chunk after the
\* last one can raise as well, leaving the whole body written.  An HTTP
\* error body is one chunk.
WriteChunk(p) ==
  LET i == CurFile(p)
      len == IF rpc[p].body = "ok" THEN NChunks ELSE 1
  IN
  /\ rpc[p].stage = "write"
  /\ \/ /\ rpc' = [rpc EXCEPT ![p].stage = "failed"]
        /\ UNCHANGED fdata
     \/ /\ fdata' = [fdata EXCEPT ![i] = WriteAt(@, rpc[p].pos, rpc[p].body)]
        /\ \E broke \in BOOLEAN :
             rpc' = [rpc EXCEPT ![p] =
                       IF rpc[p].pos + 1 < len THEN [@ EXCEPT !.pos = @ + 1]
                       ELSE IF broke THEN [@ EXCEPT !.stage = "failed"]
                       ELSE NextFile(p)]
  /\ UNCHANGED <<fexists, fwrites, fsaw_absent>>

\* the countries file is a zip: the reader finds the end-of-central-directory
\* record in the last block first, then reads the entries from the front
ZipReadOrder == <<NChunks>> \o [j \in 1..(NChunks - 1) |-> j]

\* the blocks gpd.read_file may read next: the zip order for the countries
\* file; any unread page of the GeoPackage (an SQLite database, read in
\* b-tree order, not file order) for the rivers file
NextBlocks(p, i) ==
  IF i = 1 THEN {ZipReadOrder[Cardinality(rpc[p].rdone) + 1]}
  ELSE (1..NChunks) \ rpc[p].rdone

\* one block read while other processes may still write the file: a block
\* past the end of the file or not the download's makes the parse fail;
\* once every block was read the file parsed
ReadStep(p, i, j, next) ==
  IF j > Len(fdata[i]) \/ fdata[i][j] # "ok"
    THEN [rpc[p] EXCEPT !.stage = "failed", !.rdone = {}]
  ELSE IF rpc[p].rdone \cup {j} = 1..NChunks
    THEN [rpc[p] EXCEPT !.stage = next, !.rdone = {}]
  ELSE [rpc[p] EXCEPT !.rdone = @ \cup {j}]

\* app.py line 243 / rivers.py line 50: gpd.read_file of the countries file
ReadCountries(p) ==
  /\ rpc[p].stage = "readc"
  /\ \E j \in NextBlocks(p, 1) : rpc' = [rpc EXCEPT ![p] = ReadStep(p, 1, j, "readr")]
  /\ UNCHANGED <<fexists, fdata, fwrites, fsaw_absent>>

\* app.py line 280 / rivers.py line 104: gpd.read_file of the rivers file
ReadRivers(p) ==
  /\ rpc[p].stage = "readr"
  /\ \E j \in NextBlocks(p, 2) : rpc' = [rpc EXCEPT ![p] = ReadStep(p, 2, j, "done")]
  /\ UNCHANGED <<fexists, fdata, fwrites, fsaw_absent>>

DownloadNext ==
  \/ \E p \in Procs : CheckFile(p)
       /\ UNCHANGED <<resolve_vars, mainland_vars, classify_vars, stem_vars>>
  \/ \E p \in Procs : GetAndOpen(p)
       /\ UNCHANGED <<resolve_vars, mainland_vars, classify_vars, stem_vars>>
  \/ \E p \in Procs : WriteChunk(p)
       /\ UNCHANGED <<resolve_vars, mainland_vars, classify_vars, stem_vars>>
  \/ \E p \in Procs : ReadCountries(p)
       /\ UNCHANGED <<resolve_vars, mainland_vars, classify_vars, stem_vars>>
  \/ \E p \in Procs : ReadRivers(p)
       /\ UNCHANGED <<resolve_vars, mainland_vars, classify_vars, stem_vars>>

DownloadSpec == DownloadInit /\ [][DownloadNext]_all_vars

\* C11 (as stated): each data file is written at most once.
WrittenAtMostOnce == \A i \in 1..Len(DataFiles) : fwrites[i] <= 1

\* C11 (as amended): a data file is only ever opened for writing by a
\* process (a request or the rivers.py script) whose existence check found
\* it absent and that is now fetching it; a process that finds the file
\* present never writes it.  Processes that check the file while it is
\* absent may each write it (the first-download race), so it is written at
\* most once per such process.
WritesOnlyAfterAbsentCheck ==
  [][\A i \in 1..Len(DataFiles) :
       /\ fwrites[i] <= Cardinality(fsaw_absent[i])
       /\ fwrites'[i] > fwrites[i]
            => \E p \in fsaw_absent[i] : CurFile(p) = i /\ rpc[p].stage = "get"
    ]_all_vars

WritesOnlyAfterAbsentWitness ==
  /\ Complete(1)
  /\ fwrites[1] = 1
  /\ \E r \in Requests : r \notin fsaw_absent[1] /\ rpc[r].stage = "done"

\* C12 (as stated): a data file on disk is a complete download, unless a
\* process is still writing it; a failed download leaves no partial file
\* that later requests would take as present.
PartialOnlyWhileWriting ==
  \A i \in 1..Len(DataFiles) :
    fexists[i]
      => Complete(i) \/ \E p \in Procs : CurFile(p) = i /\ rpc[p].stage = "write"

====
